---- MODULE Spec2Model ----
(***************************************************************************)
(* Scheduling, address-space and synchronisation core of the rCore kernel  *)
(* (os/src/task/processor.rs, os/src/syscall/sync.rs,                      *)
(* os/src/syscall/process.rs), modelled as a state machine.                *)
(*                                                                         *)
(* One process is modelled.  Its tasks are the task ids 0..NTasks-1.       *)
(* SpecMem is the machine of the mmap/munmap operations on the current     *)
(* task's address space; Spec is the machine of the scheduling loop and    *)
(* the synchronisation system calls.                                       *)
(***************************************************************************)
EXTENDS Integers, Sequences, FiniteSets, TLC

VARIABLES
    \* ---- address space of the current task (MemorySet) ----
    areas,           \* Vec<MapArea>: sequence of [start, end, perm]
    page_table,      \* vpn -> "NoEntry" | "Invalid" | "Valid"
    mem_last,        \* the last mmap/munmap call and its return value
    \* ---- process control block ----
    dead_lock_detect,
    mutex_list,
    semaphore_list,
    condvar_list,
    \* ---- timer: the tasks that sleep until their deadline ----
    timers,
    \* ---- the exclusive access to the process control block ----
    process_inner,   \* None, or Some of the task that holds it
    snapshot,        \* per task: the request it made the deadlock check for
    \* ---- task control blocks ----
    task_status,
    allocation,
    need,
    priority,
    stride,
    pc,
    \* ---- processor and task manager ----
    current,
    ready_queue,
    \* ---- the last step of a synchronisation system call ----
    last,
    \* ---- per semaphore, until its first up(): the initial count and the
    \* ---- number of down() calls that reached it (counted up to init + 1)
    sem_hist

memvars == <<areas, page_table, mem_last>>
procvars == <<dead_lock_detect, mutex_list, semaphore_list>>
waitvars == <<condvar_list, timers>>
borrowvars == <<process_inner, snapshot>>
taskvars == <<task_status, allocation, need, priority, stride, pc>>
cpuvars == <<current, ready_queue>>
vars == <<areas, page_table, mem_last, dead_lock_detect, mutex_list,
          semaphore_list, task_status, allocation, need, priority, stride, pc,
          current, ready_queue, last, sem_hist, condvar_list, timers,
          process_inner, snapshot>>

\* Option<T>: None is the empty sequence, Some(x) the sequence <<x>>
None == <<>>
Some(x) == <<x>>

(***************************************************************************)
(* Address space: mm collaborator interface and Processor::map/unmap       *)
(***************************************************************************)

\* bytes per page
PAGE_SIZE == 4096

\* page-table entries per leaf table (512 in SV39), scaled down so that the
\* modelled window of pages spans several leaf tables
PtesPerTable == 1

\* highest virtual page number of the modelled window
MaxVpn == 1

\* most regions kept in the address space
MaxAreas == 2

Vpns == 0..MaxVpn

\* the permission arguments tried: none, R, bit 3 alone, bit 3 with R
Ports == {0, 1, 8, 9}
Starts == {v * PAGE_SIZE : v \in Vpns} \cup {1, PAGE_SIZE + 1}
Lens == {0, PAGE_SIZE, PAGE_SIZE + 1}

\* MapPermission bits
PermR == 2
PermW == 4
PermX == 8
PermU == 16

Bit(n, i) == (n \div (2 ^ i)) % 2

\* VirtAddr::aligned
aligned(va) == va % PAGE_SIZE = 0

\* VirtAddr::floor / VirtPageNum::from(VirtAddr)
floor(va) == va \div PAGE_SIZE

\* VirtAddr::ceil
ceil(va) == IF va = 0 THEN 0 ELSE (va - 1 + PAGE_SIZE) \div PAGE_SIZE

\* VPNRange::new(l, r) as the set of its pages
VPNRange(l, r) == {v \in Vpns : l <= v /\ v < r}

\* the leaf table a page's entry lives in
TableOf(vpn) == vpn \div PtesPerTable

\* memory_set.translate(vpn): None when no leaf table holds the entry, else
\* the entry, valid or not
translate(pt, vpn) == pt[vpn]

\* the pages with a valid entry
Mapped(pt) == {v \in Vpns : pt[v] = "Valid"}

\* MapPermission::from_bits((port as u8) << 1).unwrap() | MapPermission::U
PermOf(port) ==
    LET b == ((port % 256) * 2) % 256
    IN  IF Bit(b, 4) = 1 THEN b ELSE b + PermU

\* from_bits returns None for a bit outside R|W|X|U (bit 0 or bits 5..7)
FromBitsOk(port) ==
    LET b == ((port % 256) * 2) % 256
    IN  Bit(b, 0) = 0 /\ b < 32

\* memory_set.insert_framed_area: push the region and map each of its pages,
\* creating the leaf tables the pages need
insert_areas(as, start_va, end_va, perm) ==
    Append(as, [start |-> floor(start_va), end |-> ceil(end_va), perm |-> perm])

insert_page_table(pt, start_va, end_va) ==
    LET r == VPNRange(floor(start_va), ceil(end_va))
    IN  [v \in Vpns |->
            IF v \in r THEN "Valid"
            ELSE IF pt[v] = "NoEntry" /\ \E u \in r : TableOf(u) = TableOf(v)
                 THEN "Invalid"
                 ELSE pt[v]]

\* index of the first region starting at start_vpn, 0 when there is none
FindAreaWithStart(as, start_vpn) ==
    IF \E i \in 1..Len(as) : as[i].start = start_vpn
    THEN CHOOSE i \in 1..Len(as) :
            /\ as[i].start = start_vpn
            /\ \A j \in 1..(i - 1) : as[j].start # start_vpn
    ELSE 0

RemoveAt(s, i) == SubSeq(s, 1, i - 1) \o SubSeq(s, i + 1, Len(s))

\* memory_set.remove_area_with_start_vpn: unmap and drop the first region
\* whose range starts at start_vpn, if there is one
remove_areas(as, start_vpn) ==
    LET i == FindAreaWithStart(as, start_vpn)
    IN  IF i = 0 THEN as ELSE RemoveAt(as, i)

remove_page_table(as, pt, start_vpn) ==
    LET i == FindAreaWithStart(as, start_vpn)
    IN  IF i = 0 THEN pt
        ELSE [v \in Vpns |->
                IF v \in VPNRange(as[i].start, as[i].end) THEN "Invalid" ELSE pt[v]]

\* the scan of map_task_memory started one page late
MapScanSkipsFirstPage(pt, start_va, end_va) ==
    \E vpn \in VPNRange(floor(start_va) + 1, ceil(end_va)) :
        translate(pt, vpn) # "NoEntry" /\ translate(pt, vpn) = "Valid"

\* the scan of map_task_memory: some page of the range has a valid entry
MapScanFails(pt, start_va, end_va) ==
    \E vpn \in VPNRange(floor(start_va), ceil(end_va)) :
        translate(pt, vpn) # "NoEntry" /\ translate(pt, vpn) = "Valid"

\* the scan of unmap_task_memory: some page of the range has an entry that is
\* not valid
UnmapScanFails(pt, start_va, end_va) ==
    \E vpn \in VPNRange(floor(start_va), ceil(end_va)) :
        translate(pt, vpn) # "NoEntry" /\ translate(pt, vpn) # "Valid"

\* Processor::map_task_memory
map_task_memory(start_va, end_va, port, call, done) ==
    IF MapScanFails(page_table, start_va, end_va)
    THEN /\ mem_last' = [call EXCEPT !.ret = -1]
         /\ UNCHANGED <<areas, page_table>>
    ELSE /\ FromBitsOk(port)
         /\ Len(areas) < MaxAreas
         /\ areas' = insert_areas(areas, start_va, end_va, PermOf(port))
         /\ page_table' = insert_page_table(page_table, start_va, end_va)
         /\ mem_last' = [done EXCEPT !.ret = 0]

\* Processor::unmap_task_memory
unmap_task_memory(start_va, end_va, call) ==
    IF UnmapScanFails(page_table, start_va, end_va)
    THEN /\ mem_last' = [call EXCEPT !.ret = -1]
         /\ UNCHANGED <<areas, page_table>>
    ELSE /\ areas' = remove_areas(areas, floor(start_va))
         /\ page_table' = remove_page_table(areas, page_table, floor(start_va))
         /\ mem_last' = [call EXCEPT !.ret = 0]

\* the port test of task_mmap
PortRejected(port) == port > 8 \/ port = 0

\* a permission argument encodes at least one of R (bit 0), W (bit 1), X (bit 2)
\* and has no other bit set
PortValid(port) == port % 8 # 0 /\ port < 8

\* what the last mmap/munmap call met at entry: whether start was aligned,
\* whether some page of its range had a valid entry (overlap), whether some
\* page of its range had none (hole)
MemCall(op, start, len, port) ==
    LET r == VPNRange(floor(start), ceil(start + len))
    IN  [op |-> op, ret |-> 0,
         aligned |-> aligned(start),
         port |-> port,
         overlap |-> \E v \in r : page_table[v] = "Valid",
         hole |-> \E v \in r : page_table[v] # "Valid",
         start |-> 0, len |-> 0, pre_mapped |-> {}]

\* task_mmap (sys_mmap)
task_mmap(start, len, port) ==
    LET call == MemCall("mmap", start, len, port)
        done == [call EXCEPT !.start = start, !.len = len,
                             !.pre_mapped = Mapped(page_table)]
    IN  /\ ceil(start + len) <= MaxVpn + 1
        /\ IF ~aligned(start) \/ PortRejected(port)
           THEN /\ mem_last' = [call EXCEPT !.ret = -1]
                /\ UNCHANGED <<areas, page_table>>
           ELSE map_task_memory(start, start + len, port, call, done)
        /\ UNCHANGED <<borrowvars, waitvars, procvars, taskvars, cpuvars, last, sem_hist>>

\* task_munmap (sys_munmap)
task_munmap(start, len) ==
    LET call == MemCall("munmap", start, len, 0)
    IN  /\ ceil(start + len) <= MaxVpn + 1
        /\ IF ~aligned(start)
           THEN /\ mem_last' = [call EXCEPT !.ret = -1]
                /\ UNCHANGED <<areas, page_table>>
           ELSE unmap_task_memory(start, start + len, call)
        /\ UNCHANGED <<borrowvars, waitvars, procvars, taskvars, cpuvars, last, sem_hist>>

(***************************************************************************)
(* Tasks, the task manager and the Processor                               *)
(***************************************************************************)

\* number of tasks of the process
NTasks == 2

\* most slots of mutex_list and of semaphore_list
MaxMutex == 2
MaxSem == 1

\* most slots of condvar_list
MaxCondvar == 1

\* largest count of a semaphore, at creation and later
MaxCount == 1

\* largest sum of the tasks' strides a dispatch may reach
MaxStride == 6

\* the stride scheduler's BIG_STRIDE; a dispatch adds BIG_STRIDE / priority
BIG_STRIDE == 4

\* the priority a task is created with, and the priorities tasks are given
DefaultPriority == 2
Priorities == {1, 2, 4}

Tasks == 0..(NTasks - 1)

\* the reserved status of a refused request, -0xDEAD
DEAD == -57005

NoPanic == \A t \in Tasks : pc[t] # "panicked"

\* a task is executing in user mode and may enter a system call
InUser(t) ==
    /\ NoPanic
    /\ current = Some(t)
    /\ task_status[t] = "Running"
    /\ pc[t] = "user"

\* a task is executing and resumes inside the call named by at
Resumes(t, at) ==
    /\ NoPanic
    /\ current = Some(t)
    /\ task_status[t] = "Running"
    /\ pc[t] = at

\* the record of a call's step: out is "returned", "blocked" (queued on the
\* primitive), "spinning" (yielded inside MutexSpin::lock), "switched" (yielded)
\* or "panicked"; ret is the status returned, 0 when the call has not returned;
\* id is the call's argument
Call(op, t, id, out, ret) ==
    [op |-> op, tid |-> t, id |-> id, out |-> out, ret |-> ret]

\* the ready tasks in the order the stride scheduler prefers them: smaller
\* stride first, lower task id on a tie
Before(a, b) == stride[a] < stride[b] \/ (stride[a] = stride[b] /\ a < b)

InQueue(q, t) == \E i \in 1..Len(q) : q[i] = t

\* fetch_task: the task of the ready queue the scheduler takes next
fetch_task(q) ==
    CHOOSE t \in Tasks :
        /\ InQueue(q, t)
        /\ \A u \in Tasks : InQueue(q, u) /\ u # t => Before(t, u)

\* the ready queue with its first occurrence of t taken out
FirstIndex(q, t) == CHOOSE i \in 1..Len(q) : q[i] = t /\ \A j \in 1..(i - 1) : q[j] # t
Without(q, t) == RemoveAt(q, FirstIndex(q, t))

\* add_task
add_task(q, t) == Append(q, t)

\* TaskControlBlockInner::update_stride
update_stride(t) == stride[t] + (BIG_STRIDE \div priority[t])

\* the sum of all tasks' strides
RECURSIVE SumStride(_)
SumStride(n) == IF n = 0 THEN 0 ELSE stride[n - 1] + SumStride(n - 1)
TotalStride == SumStride(NTasks)

\* run_tasks without the call of update_stride
run_tasks_NoStride ==
    /\ NoPanic
    /\ current = None
    /\ ready_queue # <<>>
    /\ LET task == fetch_task(ready_queue)
       IN  /\ TotalStride + (BIG_STRIDE \div priority[task]) <= MaxStride
           /\ ready_queue' = Without(ready_queue, task)
           /\ task_status' = [task_status EXCEPT ![task] = "Running"]
           /\ stride' = stride
           /\ current' = Some(task)
    /\ UNCHANGED <<borrowvars, memvars, waitvars, procvars, allocation, need, priority, pc, last, sem_hist>>

\* run_tasks: one round of the scheduling loop that finds a task
run_tasks ==
    /\ NoPanic
    /\ current = None
    /\ ready_queue # <<>>
    /\ LET task == fetch_task(ready_queue)
       IN  /\ TotalStride + (BIG_STRIDE \div priority[task]) <= MaxStride
           /\ ready_queue' = Without(ready_queue, task)
           /\ task_status' = [task_status EXCEPT ![task] = "Running"]
           /\ stride' = [stride EXCEPT ![task] = update_stride(task)]
           /\ current' = Some(task)
    /\ UNCHANGED <<borrowvars, memvars, waitvars, procvars, allocation, need, priority, pc, last, sem_hist>>

\* sys_yield: suspend_current_and_run_next; a timer interrupt in user mode
\* takes the same path
sys_yield(t) ==
    /\ InUser(t)
    /\ task_status' = [task_status EXCEPT ![t] = "Ready"]
    /\ ready_queue' = add_task(ready_queue, t)
    /\ current' = None
    /\ last' = Call("yield", t, 0, "switched", 0)
    /\ UNCHANGED <<borrowvars, memvars, waitvars, procvars, allocation, need, priority, stride, pc, sem_hist>>

\* sys_sleep: add_timer for the calling task, then block_current_and_run_next
sys_sleep(t) ==
    /\ InUser(t)
    /\ timers' = timers \cup {t}
    /\ task_status' = [task_status EXCEPT ![t] = "Blocked"]
    /\ current' = None
    /\ pc' = [pc EXCEPT ![t] = "sleep"]
    /\ last' = Call("sleep", t, 0, "blocked", 0)
    /\ UNCHANGED <<borrowvars, memvars, condvar_list, procvars, allocation, need, priority, stride,
                   ready_queue, sem_hist>>

\* sys_sleep returns 0 in a task that its timer has woken
sys_sleep_wake(t) ==
    /\ Resumes(t, "sleep")
    /\ pc' = [pc EXCEPT ![t] = "user"]
    /\ last' = Call("sleep", t, 0, "returned", 0)
    /\ UNCHANGED <<borrowvars, memvars, waitvars, procvars, task_status, allocation, need, priority,
                   stride, cpuvars, sem_hist>>

\* sys_exit: exit_current_and_run_next; the call does not return
sys_exit(t) ==
    /\ InUser(t)
    /\ task_status' = [task_status EXCEPT ![t] = "Exited"]
    /\ current' = None
    /\ pc' = [pc EXCEPT ![t] = "exited"]
    /\ last' = Call("exit", t, 0, "exited", 0)
    /\ UNCHANGED <<borrowvars, memvars, waitvars, procvars, allocation, need, priority, stride,
                   ready_queue, sem_hist>>

\* Processor::take_current that leaves the task in place
take_current_Keeps(cur) == cur

\* Processor::take_current: Option::take leaves None in the slot
take_current(cur) == None

\* the task has taken itself out of the Processor and has not yet called
\* schedule: it still executes, on its own kernel stack
InHandoff(t) == pc[t] \in {"to_user", "to_sleep", "to_exited"}

\* the idle control flow executes: no task is between take_current and schedule
IdleRuns == \A t \in Tasks : ~InHandoff(t)

\* where the task resumes after the switch that schedule makes
AfterSchedule(p) ==
    CASE p = "to_user" -> "user"
      [] p = "to_sleep" -> "sleep"
      [] p = "to_exited" -> "exited"

\* the scheduling loop, which only the idle control flow executes
idle_run_tasks == IdleRuns /\ run_tasks

\* suspend_current_and_run_next up to its call of schedule
suspend_current(t) ==
    /\ InUser(t)
    /\ current' = take_current(current)
    /\ task_status' = [task_status EXCEPT ![t] = "Ready"]
    /\ ready_queue' = add_task(ready_queue, t)
    /\ pc' = [pc EXCEPT ![t] = "to_user"]
    /\ last' = Call("yield", t, 0, "taken", 0)
    /\ UNCHANGED <<borrowvars, memvars, waitvars, procvars, allocation, need, priority, stride, sem_hist>>

\* sys_sleep up to the call of schedule in block_current_and_run_next
block_current(t) ==
    /\ InUser(t)
    /\ timers' = timers \cup {t}
    /\ current' = take_current(current)
    /\ task_status' = [task_status EXCEPT ![t] = "Blocked"]
    /\ pc' = [pc EXCEPT ![t] = "to_sleep"]
    /\ last' = Call("sleep", t, 0, "taken", 0)
    /\ UNCHANGED <<borrowvars, memvars, condvar_list, procvars, allocation, need, priority, stride,
                   ready_queue, sem_hist>>

\* sys_exit up to the call of schedule in exit_current_and_run_next
exit_current(t) ==
    /\ InUser(t)
    /\ current' = take_current(current)
    /\ task_status' = [task_status EXCEPT ![t] = "Exited"]
    /\ pc' = [pc EXCEPT ![t] = "to_exited"]
    /\ last' = Call("exit", t, 0, "taken", 0)
    /\ UNCHANGED <<borrowvars, memvars, waitvars, procvars, allocation, need, priority, stride,
                   ready_queue, sem_hist>>

\* schedule: the switch from the task's context to the idle control flow
schedule(t) ==
    /\ NoPanic
    /\ InHandoff(t)
    /\ pc' = [pc EXCEPT ![t] = AfterSchedule(pc[t])]
    /\ last' = Call("schedule", t, 0, "switched", 0)
    /\ UNCHANGED <<borrowvars, memvars, waitvars, procvars, task_status, allocation, need, priority,
                   stride, cpuvars, sem_hist>>

(***************************************************************************)
(* Resource ledger and deadlock detection                                  *)
(***************************************************************************)

\* ledger entries are <<flag, id>>: flag is FALSE for a mutex, TRUE for a
\* semaphore

\* set_need_resource: need.replace((flag, id)), asserted to have been None
set_need_resource(nd, flag, id) == Some(<<flag, id>>)

\* mark_resource_released that removes every matching entry
RECURSIVE mark_resource_released_All(_, _, _)
mark_resource_released_All(al, flag, id) ==
    IF al = <<>> THEN <<>>
    ELSE IF Head(al) = <<flag, id>> THEN mark_resource_released_All(Tail(al), flag, id)
    ELSE <<Head(al)>> \o mark_resource_released_All(Tail(al), flag, id)

\* mark_resource_released: swap_remove of the first matching entry
mark_resource_released(al, flag, id) ==
    IF \E i \in 1..Len(al) : al[i] = <<flag, id>>
    THEN LET pos == CHOOSE i \in 1..Len(al) :
                        al[i] = <<flag, id>> /\ \A j \in 1..(i - 1) : al[j] # <<flag, id>>
             n == Len(al)
         IN  IF pos = n THEN SubSeq(al, 1, n - 1)
             ELSE SubSeq(al, 1, pos - 1) \o <<al[n]>> \o SubSeq(al, pos + 1, n - 1)
    ELSE al

\* the grant of a request: the pending need becomes an allocation entry
record_allocation(al, nd) == IF nd = None THEN al ELSE Append(al, nd[1])

\* fetch_id that gives a semaphore the column of the mutex with its id
fetch_id_NoOffset(ml, flag, id) == id

\* fetch_id of deadlock_detect: the column of a resource
fetch_id(ml, flag, id) == IF flag THEN id + Len(ml) ELSE id

\* the allocation and need matrices and the work vector of deadlock_detect
AllocationRow(al, ml, len) ==
    [j \in 0..(len - 1) |->
        Cardinality({i \in 1..Len(al) : fetch_id(ml, al[i][1], al[i][2]) = j})]

NeedRow(nd, ml, len, extra) ==
    [j \in 0..(len - 1) |->
        (IF nd # None /\ fetch_id(ml, nd[1][1], nd[1][2]) = j THEN 1 ELSE 0)
        + (IF extra # None /\ fetch_id(ml, extra[1][1], extra[1][2]) = j THEN 1 ELSE 0)]

WorkInit(ml, sl) ==
    [j \in 0..(Len(ml) + Len(sl) - 1) |->
        IF j < Len(ml)
        THEN IF ml[j + 1] # None /\ ~ml[j + 1][1].locked THEN 1 ELSE 0
        ELSE IF sl[j - Len(ml) + 1] # None /\ sl[j - Len(ml) + 1][1].count > 0
             THEN sl[j - Len(ml) + 1][1].count
             ELSE 0]

\* the loop of deadlock_detect: finish the lowest unfinished task whose need
\* row fits into work, add its allocation row to work, repeat
RECURSIVE FinishLoop(_, _, _, _, _)
FinishLoop(finish, work, allocM, needM, len) ==
    LET fits(tid) == ~finish[tid] /\ \A j \in 0..(len - 1) : needM[tid][j] <= work[j]
    IN  IF \E tid \in DOMAIN finish : fits(tid)
        THEN LET tid == CHOOSE x \in DOMAIN finish :
                            fits(x) /\ \A y \in DOMAIN finish : y < x => ~fits(y)
             IN  FinishLoop([finish EXCEPT ![tid] = TRUE],
                            [j \in 0..(len - 1) |-> work[j] + allocM[tid][j]],
                            allocM, needM, len)
        ELSE finish

\* deadlock_detect without the caller's request folded into its need row
deadlock_detect_NoRequest(al, nd, ml, sl, flag, id, caller) ==
    LET len == Len(ml) + Len(sl)
        allocM == [tid \in Tasks |-> AllocationRow(al[tid], ml, len)]
        needM == [tid \in Tasks |-> NeedRow(nd[tid], ml, len, None)]
        finish == FinishLoop([tid \in Tasks |-> FALSE], WorkInit(ml, sl),
                             allocM, needM, len)
    IN  \E tid \in Tasks : ~finish[tid]

\* deadlock_detect: TRUE when some task cannot finish
deadlock_detect(al, nd, ml, sl, flag, id, caller) ==
    LET len == Len(ml) + Len(sl)
        allocM == [tid \in Tasks |-> AllocationRow(al[tid], ml, len)]
        needM == [tid \in Tasks |->
                    NeedRow(nd[tid], ml, len,
                            IF tid = caller THEN Some(<<flag, id>>) ELSE None)]
        finish == FinishLoop([tid \in Tasks |-> FALSE], WorkInit(ml, sl),
                             allocM, needM, len)
    IN  \E tid \in Tasks : ~finish[tid]

(***************************************************************************)
(* Synchronisation primitives and their system calls                       *)
(***************************************************************************)

\* MutexSpin::new / MutexBlocking::new
NewMutex(blocking) == [blocking |-> blocking, locked |-> FALSE, wait_queue |-> <<>>]

\* Semaphore::new
NewSemaphore(res_count) == [count |-> res_count, wait_queue |-> <<>>]

\* the lowest index (from 0) of a None slot, Len(list) when there is none
FreeSlot(list) ==
    IF \E i \in 1..Len(list) : list[i] = None
    THEN (CHOOSE i \in 1..Len(list) : list[i] = None /\ \A j \in 1..(i - 1) : list[j] # None) - 1
    ELSE Len(list)

\* list[id] = item, pushing when id is the length
Store(list, id, item) ==
    IF id < Len(list) THEN [list EXCEPT ![id + 1] = Some(item)]
    ELSE Append(list, Some(item))

\* list[id].as_ref().unwrap() succeeds
Present(list, id) == id \in 0..(Len(list) - 1) /\ list[id + 1] # None

Get(list, id) == list[id + 1][1]

\* a wakeup that resumes the woken task at once
Woken_Running(st, w) == [st EXCEPT ![w] = "Running"]

\* wakeup_task: the task becomes Ready and joins the ready queue
Woken(st, w) == [st EXCEPT ![w] = "Ready"]

\* check_timer finds the timer of task t expired: the timer is removed and
\* the task is woken
check_timer(t) ==
    /\ NoPanic
    /\ t \in timers
    /\ timers' = timers \ {t}
    /\ task_status' = Woken(task_status, t)
    /\ ready_queue' = add_task(ready_queue, t)
    /\ last' = Call("check_timer", t, 0, "woken", 0)
    /\ UNCHANGED <<borrowvars, memvars, condvar_list, procvars, allocation, need, priority, stride, pc,
                   current, sem_hist>>

\* the timer interrupt, taken while no task is between take_current and
\* schedule (the kernel runs with interrupts off)
timer_interrupt(t) == IdleRuns /\ check_timer(t)

\* Condvar::new
NewCondvar == [wait_queue |-> <<>>]

\* sys_mutex_create that always pushes
sys_mutex_create_AlwaysPush(t, blocking) ==
    /\ InUser(t)
    /\ LET id == Len(mutex_list)
       IN  /\ id < MaxMutex
           /\ mutex_list' = Store(mutex_list, id, NewMutex(blocking))
           /\ last' = Call("mutex_create", t, id, "returned", id)
    /\ UNCHANGED <<borrowvars, memvars, waitvars, dead_lock_detect, semaphore_list, taskvars, cpuvars,
                   sem_hist>>

\* sys_mutex_create
sys_mutex_create(t, blocking) ==
    /\ InUser(t)
    /\ LET id == FreeSlot(mutex_list)
       IN  /\ id < MaxMutex
           /\ mutex_list' = Store(mutex_list, id, NewMutex(blocking))
           /\ last' = Call("mutex_create", t, id, "returned", id)
    /\ UNCHANGED <<borrowvars, memvars, waitvars, dead_lock_detect, semaphore_list, taskvars, cpuvars,
                   sem_hist>>

\* sys_semaphore_create with a semaphore that starts empty
sys_semaphore_create_ZeroCount(t, res_count) ==
    /\ InUser(t)
    /\ LET id == FreeSlot(semaphore_list)
       IN  /\ id < MaxSem
           /\ semaphore_list' = Store(semaphore_list, id, NewSemaphore(0))
           /\ sem_hist' = Store(sem_hist, id, [init |-> res_count, downs |-> 0])
           /\ last' = Call("semaphore_create", t, id, "returned", id)
    /\ UNCHANGED <<borrowvars, memvars, waitvars, dead_lock_detect, mutex_list, taskvars, cpuvars>>

\* sys_semaphore_create
sys_semaphore_create(t, res_count) ==
    /\ InUser(t)
    /\ LET id == FreeSlot(semaphore_list)
       IN  /\ id < MaxSem
           /\ semaphore_list' = Store(semaphore_list, id, NewSemaphore(res_count))
           /\ sem_hist' = Store(sem_hist, id, [init |-> res_count, downs |-> 0])
           /\ last' = Call("semaphore_create", t, id, "returned", id)
    /\ UNCHANGED <<borrowvars, memvars, waitvars, dead_lock_detect, mutex_list, taskvars, cpuvars>>

\* sys_condvar_create
sys_condvar_create(t) ==
    /\ InUser(t)
    /\ LET id == FreeSlot(condvar_list)
       IN  /\ id < MaxCondvar
           /\ condvar_list' = Store(condvar_list, id, NewCondvar)
           /\ last' = Call("condvar_create", t, id, "returned", id)
    /\ UNCHANGED <<borrowvars, memvars, timers, procvars, taskvars, cpuvars, sem_hist>>

\* a slot of a resource table is reset to None: the primitive, which no task
\* holds or waits for, is retired.  The record tells whether the slot is the
\* one the call before created.
Idle(list, id) ==
    /\ Present(list, id)
    /\ Get(list, id).wait_queue = <<>>
    /\ \A t \in Tasks : need[t] = None /\ allocation[t] = <<>>

Retired(list, id) == [list EXCEPT ![id + 1] = None]

JustCreated(op, id) == IF last.op = op /\ last.ret = id THEN 1 ELSE 0

retire_mutex(id) ==
    /\ NoPanic
    /\ Idle(mutex_list, id)
    /\ mutex_list' = Retired(mutex_list, id)
    /\ last' = Call("mutex_retire", 0, id, "returned", JustCreated("mutex_create", id))
    /\ UNCHANGED <<borrowvars, memvars, waitvars, dead_lock_detect, semaphore_list, taskvars, cpuvars,
                   sem_hist>>

retire_semaphore(id) ==
    /\ NoPanic
    /\ Idle(semaphore_list, id)
    /\ semaphore_list' = Retired(semaphore_list, id)
    /\ sem_hist' = Retired(sem_hist, id)
    /\ last' = Call("semaphore_retire", 0, id, "returned", JustCreated("semaphore_create", id))
    /\ UNCHANGED <<borrowvars, memvars, waitvars, dead_lock_detect, mutex_list, taskvars, cpuvars>>

retire_condvar(id) ==
    /\ NoPanic
    /\ Idle(condvar_list, id)
    /\ condvar_list' = Retired(condvar_list, id)
    /\ last' = Call("condvar_retire", 0, id, "returned", JustCreated("condvar_create", id))
    /\ UNCHANGED <<borrowvars, memvars, timers, procvars, taskvars, cpuvars, sem_hist>>

\* sys_enable_deadlock_detect that takes every non-zero argument as "on"
sys_enable_deadlock_detect_NonZero(t, enabled) ==
    /\ InUser(t)
    /\ dead_lock_detect' = (enabled # 0)
    /\ last' = Call("enable_deadlock_detect", t, enabled, "returned", 0)
    /\ UNCHANGED <<borrowvars, memvars, waitvars, mutex_list, semaphore_list, taskvars, cpuvars, sem_hist>>

\* sys_enable_deadlock_detect
sys_enable_deadlock_detect(t, enabled) ==
    /\ InUser(t)
    /\ IF enabled = 1 \/ enabled = 0
       THEN /\ dead_lock_detect' = (enabled # 0)
            /\ last' = Call("enable_deadlock_detect", t, enabled, "returned", 0)
       ELSE /\ UNCHANGED dead_lock_detect
            /\ last' = Call("enable_deadlock_detect", t, enabled, "returned", -1)
    /\ UNCHANGED <<borrowvars, memvars, waitvars, mutex_list, semaphore_list, taskvars, cpuvars, sem_hist>>

\* Mutex::lock called by t on mutex id after its need was recorded:
\* MutexBlocking takes a free mutex, or queues and blocks the caller;
\* MutexSpin takes a free mutex, or yields and tries again when dispatched
mutex_lock(t, id, nd) ==
    LET mu == Get(mutex_list, id)
    IN  IF ~mu.locked
        THEN /\ mutex_list' = [mutex_list EXCEPT ![id + 1] = Some([mu EXCEPT !.locked = TRUE])]
             /\ allocation' = [allocation EXCEPT ![t] = record_allocation(@, nd)]
             /\ need' = [need EXCEPT ![t] = None]
             /\ last' = Call("mutex_lock", t, id, "returned", 0)
             /\ UNCHANGED <<task_status, pc, cpuvars>>
        ELSE IF mu.blocking
        THEN /\ mutex_list' = [mutex_list EXCEPT ![id + 1] =
                                  Some([mu EXCEPT !.wait_queue = Append(@, t)])]
             /\ need' = [need EXCEPT ![t] = nd]
             /\ task_status' = [task_status EXCEPT ![t] = "Blocked"]
             /\ current' = None
             /\ pc' = [pc EXCEPT ![t] = "mutex_lock"]
             /\ last' = Call("mutex_lock", t, id, "blocked", 0)
             /\ UNCHANGED <<allocation, ready_queue>>
        ELSE /\ need' = [need EXCEPT ![t] = nd]
             /\ task_status' = [task_status EXCEPT ![t] = "Ready"]
             /\ ready_queue' = add_task(ready_queue, t)
             /\ current' = None
             /\ pc' = [pc EXCEPT ![t] = "mutex_spin"]
             /\ last' = Call("mutex_lock", t, id, "spinning", 0)
             /\ UNCHANGED <<allocation, mutex_list>>

\* sys_mutex_lock with the need recorded before the deadlock check
sys_mutex_lock_NeedFirst(t, mutex_id) ==
    /\ InUser(t)
    /\ Present(mutex_list, mutex_id)
    /\ IF need[t] # None
       THEN /\ pc' = [pc EXCEPT ![t] = "panicked"]
            /\ last' = Call("mutex_lock", t, mutex_id, "panicked", 0)
            /\ UNCHANGED <<mutex_list, task_status, allocation, need, cpuvars>>
       ELSE IF dead_lock_detect
               /\ deadlock_detect(allocation, need, mutex_list, semaphore_list,
                                  FALSE, mutex_id, t)
       THEN /\ need' = [need EXCEPT ![t] = set_need_resource(@, FALSE, mutex_id)]
            /\ last' = Call("mutex_lock", t, mutex_id, "returned", DEAD)
            /\ UNCHANGED <<mutex_list, task_status, allocation, pc, cpuvars>>
       ELSE mutex_lock(t, mutex_id, set_need_resource(need[t], FALSE, mutex_id))
    /\ UNCHANGED <<borrowvars, memvars, waitvars, dead_lock_detect, semaphore_list, priority, stride, sem_hist>>

\* sys_mutex_lock
sys_mutex_lock(t, mutex_id) ==
    /\ InUser(t)
    /\ Present(mutex_list, mutex_id)
    /\ IF dead_lock_detect
          /\ deadlock_detect(allocation, need, mutex_list, semaphore_list,
                             FALSE, mutex_id, t)
       THEN /\ last' = Call("mutex_lock", t, mutex_id, "returned", DEAD)
            /\ UNCHANGED <<mutex_list, task_status, allocation, need, pc, cpuvars>>
       ELSE IF need[t] # None
       THEN /\ pc' = [pc EXCEPT ![t] = "panicked"]
            /\ last' = Call("mutex_lock", t, mutex_id, "panicked", 0)
            /\ UNCHANGED <<mutex_list, task_status, allocation, need, cpuvars>>
       ELSE mutex_lock(t, mutex_id, set_need_resource(need[t], FALSE, mutex_id))
    /\ UNCHANGED <<borrowvars, memvars, waitvars, dead_lock_detect, semaphore_list, priority, stride, sem_hist>>

\* MutexBlocking::lock returns in a task that unlock has woken: the mutex was
\* handed over locked
mutex_lock_wake(t) ==
    /\ Resumes(t, "mutex_lock")
    /\ allocation' = [allocation EXCEPT ![t] = record_allocation(@, need[t])]
    /\ need' = [need EXCEPT ![t] = None]
    /\ pc' = [pc EXCEPT ![t] = "user"]
    /\ last' = Call("mutex_lock", t, need[t][1][2], "returned", 0)
    /\ UNCHANGED <<borrowvars, memvars, waitvars, procvars, task_status, priority, stride, cpuvars, sem_hist>>

\* MutexSpin::lock tries again in a task that yielded
mutex_lock_retry(t) ==
    /\ Resumes(t, "mutex_spin")
    /\ LET id == need[t][1][2]
           mu == Get(mutex_list, id)
       IN  IF ~mu.locked
           THEN /\ mutex_list' = [mutex_list EXCEPT ![id + 1] = Some([mu EXCEPT !.locked = TRUE])]
                /\ allocation' = [allocation EXCEPT ![t] = record_allocation(@, need[t])]
                /\ need' = [need EXCEPT ![t] = None]
                /\ pc' = [pc EXCEPT ![t] = "user"]
                /\ last' = Call("mutex_lock", t, id, "returned", 0)
                /\ UNCHANGED <<task_status, cpuvars>>
           ELSE /\ task_status' = [task_status EXCEPT ![t] = "Ready"]
                /\ ready_queue' = add_task(ready_queue, t)
                /\ current' = None
                /\ last' = Call("mutex_lock", t, id, "spinning", 0)
                /\ UNCHANGED <<mutex_list, allocation, need, pc>>
    /\ UNCHANGED <<borrowvars, memvars, waitvars, dead_lock_detect, semaphore_list, priority, stride, sem_hist>>

\* Mutex::unlock that wakes the front waiter and clears the held flag
mutex_unlock_ClearsFlag(t, id) ==
    LET mu == Get(mutex_list, id)
    IN  IF mu.blocking /\ mu.wait_queue # <<>>
        THEN /\ mutex_list' = [mutex_list EXCEPT ![id + 1] =
                                  Some([mu EXCEPT !.wait_queue = Tail(@), !.locked = FALSE])]
             /\ task_status' = Woken(task_status, Head(mu.wait_queue))
             /\ ready_queue' = add_task(ready_queue, Head(mu.wait_queue))
        ELSE /\ mutex_list' = [mutex_list EXCEPT ![id + 1] = Some([mu EXCEPT !.locked = FALSE])]
             /\ UNCHANGED <<task_status, ready_queue>>

\* Mutex::unlock: MutexBlocking hands the mutex to the front waiter and wakes
\* it, or clears the held flag when nobody waits; MutexSpin clears the flag
mutex_unlock(t, id) ==
    LET mu == Get(mutex_list, id)
    IN  IF mu.blocking /\ mu.wait_queue # <<>>
        THEN /\ mutex_list' = [mutex_list EXCEPT ![id + 1] =
                                  Some([mu EXCEPT !.wait_queue = Tail(@)])]
             /\ task_status' = Woken(task_status, Head(mu.wait_queue))
             /\ ready_queue' = add_task(ready_queue, Head(mu.wait_queue))
        ELSE /\ mutex_list' = [mutex_list EXCEPT ![id + 1] = Some([mu EXCEPT !.locked = FALSE])]
             /\ UNCHANGED <<task_status, ready_queue>>

\* sys_mutex_unlock
sys_mutex_unlock(t, mutex_id) ==
    /\ InUser(t)
    /\ Present(mutex_list, mutex_id)
    /\ allocation' = [allocation EXCEPT ![t] = mark_resource_released(@, FALSE, mutex_id)]
    /\ mutex_unlock(t, mutex_id)
    /\ last' = Call("mutex_unlock", t, mutex_id, "returned", 0)
    /\ UNCHANGED <<borrowvars, memvars, waitvars, dead_lock_detect, semaphore_list, need, priority, stride,
                   pc, current, sem_hist>>

\* Semaphore::up that wakes the front waiter and also leaves the unit in count
semaphore_up_AlsoCounts(t, id) ==
    LET sem == Get(semaphore_list, id)
    IN  /\ sem.count < MaxCount
        /\ IF sem.wait_queue # <<>>
           THEN /\ semaphore_list' = [semaphore_list EXCEPT ![id + 1] =
                                         Some([sem EXCEPT !.wait_queue = Tail(@),
                                                          !.count = @ + 1])]
                /\ task_status' = Woken(task_status, Head(sem.wait_queue))
                /\ ready_queue' = add_task(ready_queue, Head(sem.wait_queue))
           ELSE /\ semaphore_list' = [semaphore_list EXCEPT ![id + 1] =
                                         Some([sem EXCEPT !.count = @ + 1])]
                /\ UNCHANGED <<task_status, ready_queue>>

\* Semaphore::up: a waiter at the front of the queue is woken and takes the
\* unit; with no waiter the count grows by one
semaphore_up(t, id) ==
    LET sem == Get(semaphore_list, id)
    IN  IF sem.wait_queue # <<>>
        THEN /\ semaphore_list' = [semaphore_list EXCEPT ![id + 1] =
                                      Some([sem EXCEPT !.wait_queue = Tail(@)])]
             /\ task_status' = Woken(task_status, Head(sem.wait_queue))
             /\ ready_queue' = add_task(ready_queue, Head(sem.wait_queue))
        ELSE /\ sem.count < MaxCount
             /\ semaphore_list' = [semaphore_list EXCEPT ![id + 1] =
                                      Some([sem EXCEPT !.count = @ + 1])]
             /\ UNCHANGED <<task_status, ready_queue>>

\* sys_semaphore_up
sys_semaphore_up(t, sem_id) ==
    /\ InUser(t)
    /\ Present(semaphore_list, sem_id)
    /\ allocation' = [allocation EXCEPT ![t] = mark_resource_released(@, TRUE, sem_id)]
    /\ semaphore_up(t, sem_id)
    /\ sem_hist' = [sem_hist EXCEPT ![sem_id + 1] = None]
    /\ last' = Call("semaphore_up", t, sem_id, "returned", 0)
    /\ UNCHANGED <<borrowvars, memvars, waitvars, dead_lock_detect, mutex_list, need, priority, stride,
                   pc, current>>

\* Semaphore::down called by t after its need was recorded: takes a unit when
\* the count is positive, else queues and blocks the caller
semaphore_down(t, id, nd) ==
    LET sem == Get(semaphore_list, id)
    IN  IF sem.count > 0
        THEN /\ semaphore_list' = [semaphore_list EXCEPT ![id + 1] =
                                      Some([sem EXCEPT !.count = @ - 1])]
             /\ allocation' = [allocation EXCEPT ![t] = record_allocation(@, nd)]
             /\ need' = [need EXCEPT ![t] = None]
             /\ last' = Call("semaphore_down", t, id, "returned", 0)
             /\ UNCHANGED <<task_status, pc, cpuvars>>
        ELSE /\ semaphore_list' = [semaphore_list EXCEPT ![id + 1] =
                                      Some([sem EXCEPT !.wait_queue = Append(@, t)])]
             /\ need' = [need EXCEPT ![t] = nd]
             /\ task_status' = [task_status EXCEPT ![t] = "Blocked"]
             /\ current' = None
             /\ pc' = [pc EXCEPT ![t] = "semaphore_down"]
             /\ last' = Call("semaphore_down", t, id, "blocked", 0)
             /\ UNCHANGED <<allocation, ready_queue>>

\* the history of a semaphore after one more down() reached it
CountDown(h) ==
    IF h = None \/ h[1].downs > h[1].init THEN h
    ELSE Some([h[1] EXCEPT !.downs = @ + 1])

\* sys_semaphore_down that runs the deadlock check whatever the flag says
sys_semaphore_down_Ungated(t, sem_id) ==
    /\ InUser(t)
    /\ Present(semaphore_list, sem_id)
    /\ IF deadlock_detect(allocation, need, mutex_list, semaphore_list,
                          TRUE, sem_id, t)
       THEN /\ last' = Call("semaphore_down", t, sem_id, "returned", DEAD)
            /\ UNCHANGED <<semaphore_list, task_status, allocation, need, pc, cpuvars,
                           sem_hist>>
       ELSE IF need[t] # None
       THEN /\ pc' = [pc EXCEPT ![t] = "panicked"]
            /\ last' = Call("semaphore_down", t, sem_id, "panicked", 0)
            /\ UNCHANGED <<semaphore_list, task_status, allocation, need, cpuvars,
                           sem_hist>>
       ELSE /\ semaphore_down(t, sem_id, set_need_resource(need[t], TRUE, sem_id))
            /\ sem_hist' = [sem_hist EXCEPT ![sem_id + 1] = CountDown(@)]
    /\ UNCHANGED <<borrowvars, memvars, waitvars, dead_lock_detect, mutex_list, priority, stride>>

\* sys_semaphore_down
sys_semaphore_down(t, sem_id) ==
    /\ InUser(t)
    /\ Present(semaphore_list, sem_id)
    /\ IF dead_lock_detect
          /\ deadlock_detect(allocation, need, mutex_list, semaphore_list,
                             TRUE, sem_id, t)
       THEN /\ last' = Call("semaphore_down", t, sem_id, "returned", DEAD)
            /\ UNCHANGED <<semaphore_list, task_status, allocation, need, pc, cpuvars,
                           sem_hist>>
       ELSE IF need[t] # None
       THEN /\ pc' = [pc EXCEPT ![t] = "panicked"]
            /\ last' = Call("semaphore_down", t, sem_id, "panicked", 0)
            /\ UNCHANGED <<semaphore_list, task_status, allocation, need, cpuvars,
                           sem_hist>>
       ELSE /\ semaphore_down(t, sem_id, set_need_resource(need[t], TRUE, sem_id))
            /\ sem_hist' = [sem_hist EXCEPT ![sem_id + 1] = CountDown(@)]
    /\ UNCHANGED <<borrowvars, memvars, waitvars, dead_lock_detect, mutex_list, priority, stride>>

\* Semaphore::down returns in a task that up has woken
semaphore_down_wake(t) ==
    /\ Resumes(t, "semaphore_down")
    /\ allocation' = [allocation EXCEPT ![t] = record_allocation(@, need[t])]
    /\ need' = [need EXCEPT ![t] = None]
    /\ pc' = [pc EXCEPT ![t] = "user"]
    /\ last' = Call("semaphore_down", t, need[t][1][2], "returned", 0)
    /\ UNCHANGED <<borrowvars, memvars, waitvars, procvars, task_status, priority, stride, cpuvars, sem_hist>>

\* Condvar::signal that wakes the front waiter and leaves it on the queue
condvar_signal_KeepsWaiter(t, id) ==
    LET cv == Get(condvar_list, id)
    IN  IF cv.wait_queue # <<>>
        THEN /\ task_status' = Woken(task_status, Head(cv.wait_queue))
             /\ ready_queue' = add_task(ready_queue, Head(cv.wait_queue))
             /\ UNCHANGED condvar_list
        ELSE UNCHANGED <<condvar_list, task_status, ready_queue>>

\* Condvar::signal: the front waiter, if any, is woken
condvar_signal(t, id) ==
    LET cv == Get(condvar_list, id)
    IN  IF cv.wait_queue # <<>>
        THEN /\ condvar_list' = [condvar_list EXCEPT ![id + 1] =
                                    Some([cv EXCEPT !.wait_queue = Tail(@)])]
             /\ task_status' = Woken(task_status, Head(cv.wait_queue))
             /\ ready_queue' = add_task(ready_queue, Head(cv.wait_queue))
        ELSE UNCHANGED <<condvar_list, task_status, ready_queue>>

\* sys_condvar_signal
sys_condvar_signal(t, condvar_id) ==
    /\ InUser(t)
    /\ Present(condvar_list, condvar_id)
    /\ condvar_signal(t, condvar_id)
    /\ last' = Call("condvar_signal", t, condvar_id, "returned", 0)
    /\ UNCHANGED <<borrowvars, memvars, timers, procvars, allocation, need, priority, stride, pc,
                   current, sem_hist>>

\* Condvar::wait called by t: the mutex is unlocked as by Mutex::unlock, the
\* caller joins the condvar's wait queue and blocks
condvar_wait(t, id, mutex_id) ==
    LET cv == Get(condvar_list, id)
        mu == Get(mutex_list, mutex_id)
        handoff == mu.blocking /\ mu.wait_queue # <<>>
    IN  /\ mutex_list' = [mutex_list EXCEPT ![mutex_id + 1] =
                             IF handoff THEN Some([mu EXCEPT !.wait_queue = Tail(@)])
                             ELSE Some([mu EXCEPT !.locked = FALSE])]
        /\ condvar_list' = [condvar_list EXCEPT ![id + 1] =
                               Some([cv EXCEPT !.wait_queue = Append(@, t)])]
        /\ task_status' = [(IF handoff THEN Woken(task_status, Head(mu.wait_queue))
                            ELSE task_status) EXCEPT ![t] = "Blocked"]
        /\ ready_queue' = IF handoff THEN add_task(ready_queue, Head(mu.wait_queue))
                          ELSE ready_queue
        /\ current' = None
        /\ pc' = [pc EXCEPT ![t] = "condvar_wait"]

\* sys_condvar_wait: the mutex leaves the caller's allocation and becomes its
\* pending need before Condvar::wait runs
sys_condvar_wait(t, condvar_id, mutex_id) ==
    /\ InUser(t)
    /\ Present(condvar_list, condvar_id)
    /\ Present(mutex_list, mutex_id)
    /\ allocation' = [allocation EXCEPT ![t] = mark_resource_released(@, FALSE, mutex_id)]
    /\ IF need[t] # None
       THEN /\ pc' = [pc EXCEPT ![t] = "panicked"]
            /\ last' = Call("condvar_wait", t, condvar_id, "panicked", 0)
            /\ UNCHANGED <<mutex_list, condvar_list, task_status, need, cpuvars>>
       ELSE /\ need' = [need EXCEPT ![t] = set_need_resource(@, FALSE, mutex_id)]
            /\ condvar_wait(t, condvar_id, mutex_id)
            /\ last' = Call("condvar_wait", t, condvar_id, "blocked", 0)
    /\ UNCHANGED <<borrowvars, memvars, timers, dead_lock_detect, semaphore_list, priority, stride,
                   sem_hist>>

\* Condvar::wait returns in a task that signal has woken; the mutex is not
\* taken again
condvar_wait_wake(t) ==
    /\ Resumes(t, "condvar_wait")
    /\ pc' = [pc EXCEPT ![t] = "user"]
    /\ last' = Call("condvar_wait", t, 0, "returned", 0)
    /\ UNCHANGED <<borrowvars, memvars, waitvars, procvars, task_status, allocation, need, priority,
                   stride, cpuvars, sem_hist>>

\* a call of deadlock_detect by task t for the request (flag, id); the record
\* holds the class of the resource and 1 for "unsafe", 0 for "safe"
detect(t, flag, id) ==
    /\ IF flag THEN id < Len(semaphore_list) ELSE id < Len(mutex_list)
    /\ last' = Call("deadlock_detect", t, id, IF flag THEN "semaphore" ELSE "mutex",
                    IF deadlock_detect(allocation, need, mutex_list, semaphore_list,
                                       flag, id, t)
                    THEN 1 ELSE 0)
    /\ UNCHANGED <<borrowvars, memvars, waitvars, procvars, taskvars, cpuvars, sem_hist>>

(***************************************************************************)
(* sys_mutex_lock and sys_semaphore_down, one step for each critical        *)
(* section                                                                  *)
(***************************************************************************)

\* the task is in user mode and inside no system call
AtUser(t) == InUser(t) /\ snapshot[t] = None

\* the task executes inside sys_mutex_lock or sys_semaphore_down, at stage
InCall(t, stage) ==
    /\ NoPanic
    /\ current = Some(t)
    /\ task_status[t] = "Running"
    /\ snapshot[t] # None
    /\ snapshot[t][1].stage = stage

\* the request read by the deadlock check and what the check found
Checked(flag, id, unsafe) ==
    [flag |-> flag, id |-> id, unsafe |-> unsafe, stage |-> "decide"]

\* inner_exclusive_access and the reading of deadlock_detect, with the
\* exclusive access dropped before the result is used
acquire_check_DropsEarly(t, flag, id) ==
    /\ AtUser(t)
    /\ IF flag THEN Present(semaphore_list, id) ELSE Present(mutex_list, id)
    /\ process_inner = None
    /\ process_inner' = None
    /\ snapshot' = [snapshot EXCEPT ![t] =
                       Some(Checked(flag, id,
                                    dead_lock_detect
                                    /\ deadlock_detect(allocation, need, mutex_list,
                                                       semaphore_list, flag, id, t)))]
    /\ last' = Call(IF flag THEN "semaphore_down" ELSE "mutex_lock", t, id, "checked", 0)
    /\ UNCHANGED <<memvars, waitvars, procvars, taskvars, cpuvars, sem_hist>>

\* sys_mutex_lock (flag FALSE) and sys_semaphore_down (flag TRUE) from
\* inner_exclusive_access to the return of deadlock_detect: the caller holds
\* the exclusive access of the process and has read the ledgers and the
\* primitives; a second exclusive access would panic (BorrowMutError)
acquire_check(t, flag, id) ==
    /\ AtUser(t)
    /\ IF flag THEN Present(semaphore_list, id) ELSE Present(mutex_list, id)
    /\ process_inner = None
    /\ process_inner' = Some(t)
    /\ snapshot' = [snapshot EXCEPT ![t] =
                       Some(Checked(flag, id,
                                    dead_lock_detect
                                    /\ deadlock_detect(allocation, need, mutex_list,
                                                       semaphore_list, flag, id, t)))]
    /\ last' = Call(IF flag THEN "semaphore_down" ELSE "mutex_lock", t, id, "checked", 0)
    /\ UNCHANGED <<memvars, waitvars, procvars, taskvars, cpuvars, sem_hist>>

\* the decision: the sentinel is returned, or the primitive is cloned out of
\* its list; the exclusive access is dropped on both paths
acquire_decide(t) ==
    /\ InCall(t, "decide")
    /\ LET s == snapshot[t][1]
           op == IF s.flag THEN "semaphore_down" ELSE "mutex_lock"
       IN  IF s.unsafe
           THEN /\ snapshot' = [snapshot EXCEPT ![t] = None]
                /\ last' = Call(op, t, s.id, "returned", DEAD)
           ELSE /\ snapshot' = [snapshot EXCEPT ![t] = Some([s EXCEPT !.stage = "need"])]
                /\ last' = Call(op, t, s.id, "proceed", 0)
    /\ process_inner' = None
    /\ UNCHANGED <<memvars, waitvars, procvars, taskvars, cpuvars, sem_hist>>

\* set_need_resource and Mutex::lock / Semaphore::down
acquire_request(t) ==
    /\ InCall(t, "need")
    /\ LET s == snapshot[t][1]
       IN  IF need[t] # None
           THEN /\ pc' = [pc EXCEPT ![t] = "panicked"]
                /\ last' = Call(IF s.flag THEN "semaphore_down" ELSE "mutex_lock",
                                t, s.id, "panicked", 0)
                /\ UNCHANGED <<mutex_list, semaphore_list, task_status, allocation, need,
                               cpuvars, sem_hist>>
           ELSE IF s.flag
           THEN /\ semaphore_down(t, s.id, set_need_resource(need[t], TRUE, s.id))
                /\ sem_hist' = [sem_hist EXCEPT ![s.id + 1] = CountDown(@)]
                /\ UNCHANGED mutex_list
           ELSE /\ mutex_lock(t, s.id, set_need_resource(need[t], FALSE, s.id))
                /\ UNCHANGED <<semaphore_list, sem_hist>>
    /\ snapshot' = [snapshot EXCEPT ![t] = None]
    /\ UNCHANGED <<process_inner, memvars, waitvars, dead_lock_detect, priority, stride>>

\* a timer interrupt that suspends the task inside the call, outside its
\* critical section
preempt(t) ==
    /\ NoPanic
    /\ current = Some(t)
    /\ task_status[t] = "Running"
    /\ snapshot[t] # None
    /\ process_inner # Some(t)
    /\ task_status' = [task_status EXCEPT ![t] = "Ready"]
    /\ ready_queue' = add_task(ready_queue, t)
    /\ current' = None
    /\ last' = Call("preempt", t, 0, "switched", 0)
    /\ UNCHANGED <<borrowvars, memvars, waitvars, procvars, allocation, need, priority,
                   stride, pc, sem_hist>>

(***************************************************************************)
(* The machines                                                            *)
(***************************************************************************)

\* the address space a task starts with: one region (the program) at page 0
InitAreas == <<[start |-> 0, end |-> 1, perm |-> PermR + PermX + PermU]>>

InitCommon ==
    /\ areas = InitAreas
    /\ page_table = insert_page_table([v \in Vpns |-> "NoEntry"], 0, PAGE_SIZE)
    /\ mem_last = [MemCall("none", 0, 0, 0) EXCEPT !.aligned = TRUE, !.overlap = FALSE,
                                                   !.hole = FALSE]
    /\ dead_lock_detect = FALSE
    /\ mutex_list = <<>>
    /\ semaphore_list = <<>>
    /\ condvar_list = <<>>
    /\ timers = {}
    /\ process_inner = None
    /\ snapshot = [t \in Tasks |-> None]
    /\ task_status = [t \in Tasks |-> "Ready"]
    /\ allocation = [t \in Tasks |-> <<>>]
    /\ need = [t \in Tasks |-> None]
    /\ stride = [t \in Tasks |-> 0]
    /\ pc = [t \in Tasks |-> "user"]
    /\ current = None
    /\ ready_queue = [i \in 1..NTasks |-> i - 1]
    /\ last = Call("none", 0, 0, "returned", 0)
    /\ sem_hist = <<>>

\* every task starts with the default priority
Init ==
    /\ InitCommon
    /\ priority = [t \in Tasks |-> DefaultPriority]

\* tasks whose priorities were set apart
InitSched ==
    /\ InitCommon
    /\ priority \in [Tasks -> Priorities]

\* the scheduling loop and every synchronisation call
Next ==
    \/ run_tasks
    \/ \E t \in Tasks : sys_yield(t)
    \/ \E t \in Tasks : sys_mutex_create(t, TRUE)
    \/ \E t \in Tasks, n \in 0..MaxCount : sys_semaphore_create(t, n)
    \/ \E t \in Tasks : sys_enable_deadlock_detect(t, 1)
    \/ \E t \in Tasks, m \in 0..(MaxMutex - 1) : sys_mutex_lock(t, m)
    \/ \E t \in Tasks : mutex_lock_wake(t)
    \/ \E t \in Tasks, m \in 0..(MaxMutex - 1) : sys_mutex_unlock(t, m)
    \/ \E t \in Tasks, s \in 0..(MaxSem - 1) : sys_semaphore_up(t, s)
    \/ \E t \in Tasks, s \in 0..(MaxSem - 1) : sys_semaphore_down(t, s)
    \/ \E t \in Tasks : semaphore_down_wake(t)

Spec == Init /\ [][Next]_vars

\* the scheduling loop and the mutex calls, on mutexes of both kinds
NextLock ==
    \/ run_tasks
    \/ \E t \in Tasks : sys_yield(t)
    \/ \E t \in Tasks, blocking \in BOOLEAN : sys_mutex_create(t, blocking)
    \/ \E t \in Tasks, v \in 0..1 : sys_enable_deadlock_detect(t, v)
    \/ \E t \in Tasks, m \in 0..(MaxMutex - 1) : sys_mutex_lock(t, m)
    \/ \E t \in Tasks : mutex_lock_wake(t)
    \/ \E t \in Tasks : mutex_lock_retry(t)
    \/ \E t \in Tasks, m \in 0..(MaxMutex - 1) : sys_mutex_unlock(t, m)

SpecLock == Init /\ [][NextLock]_vars

\* the scheduling loop and the semaphore calls
NextSem ==
    \/ run_tasks
    \/ \E t \in Tasks : sys_yield(t)
    \/ \E t \in Tasks, n \in 0..MaxCount : sys_semaphore_create(t, n)
    \/ \E t \in Tasks, v \in 0..1 : sys_enable_deadlock_detect(t, v)
    \/ \E t \in Tasks, s \in 0..(MaxSem - 1) : sys_semaphore_up(t, s)
    \/ \E t \in Tasks, s \in 0..(MaxSem - 1) : sys_semaphore_down(t, s)
    \/ \E t \in Tasks : semaphore_down_wake(t)

SpecSem == Init /\ [][NextSem]_vars

\* the scheduling loop over tasks of differing priorities that yield and
\* block on a mutex
NextSched ==
    \/ run_tasks
    \/ \E t \in Tasks : sys_yield(t)
    \/ \E t \in Tasks : sys_mutex_create(t, TRUE)
    \/ \E t \in Tasks, m \in 0..(MaxMutex - 1) : sys_mutex_lock(t, m)
    \/ \E t \in Tasks : mutex_lock_wake(t)
    \/ \E t \in Tasks, m \in 0..(MaxMutex - 1) : sys_mutex_unlock(t, m)

SpecSched == InitSched /\ [][NextSched]_vars

\* the scheduling loop, the mutex calls on mutexes of both kinds and the
\* semaphore calls that acquire
NextAcquire ==
    \/ run_tasks
    \/ \E t \in Tasks : sys_yield(t)
    \/ \E t \in Tasks, blocking \in BOOLEAN : sys_mutex_create(t, blocking)
    \/ \E t \in Tasks, n \in 0..MaxCount : sys_semaphore_create(t, n)
    \/ \E t \in Tasks, v \in 0..1 : sys_enable_deadlock_detect(t, v)
    \/ \E t \in Tasks, m \in 0..(MaxMutex - 1) : sys_mutex_lock(t, m)
    \/ \E t \in Tasks : mutex_lock_wake(t)
    \/ \E t \in Tasks : mutex_lock_retry(t)
    \/ \E t \in Tasks, m \in 0..(MaxMutex - 1) : sys_mutex_unlock(t, m)
    \/ \E t \in Tasks, s \in 0..(MaxSem - 1) : sys_semaphore_down(t, s)

SpecAcquire == Init /\ [][NextAcquire]_vars

\* the arguments of enable_deadlock_detect tried
EnableArgs == {0, 1, 2}

\* the creation calls, the retiring of primitives and the detection switch
NextSetup ==
    \/ run_tasks
    \/ \E t \in Tasks : sys_yield(t)
    \/ \E t \in Tasks, blocking \in BOOLEAN : sys_mutex_create(t, blocking)
    \/ \E t \in Tasks, n \in 0..MaxCount : sys_semaphore_create(t, n)
    \/ \E t \in Tasks : sys_condvar_create(t)
    \/ \E m \in 0..(MaxMutex - 1) : retire_mutex(m)
    \/ \E i \in 0..(MaxSem - 1) : retire_semaphore(i)
    \/ \E c \in 0..(MaxCondvar - 1) : retire_condvar(c)
    \/ \E t \in Tasks, v \in EnableArgs : sys_enable_deadlock_detect(t, v)

SpecSetup == Init /\ [][NextSetup]_vars

\* the scheduling loop and the calls on blocking mutexes, semaphores and
\* condvars, with detection left off
NextWait ==
    \/ run_tasks
    \/ \E t \in Tasks : sys_yield(t)
    \/ \E t \in Tasks : sys_mutex_create(t, TRUE)
    \/ \E t \in Tasks, n \in 0..MaxCount : sys_semaphore_create(t, n)
    \/ \E t \in Tasks : sys_condvar_create(t)
    \/ \E t \in Tasks, m \in 0..(MaxMutex - 1) : sys_mutex_lock(t, m)
    \/ \E t \in Tasks : mutex_lock_wake(t)
    \/ \E t \in Tasks, m \in 0..(MaxMutex - 1) : sys_mutex_unlock(t, m)
    \/ \E t \in Tasks, i \in 0..(MaxSem - 1) : sys_semaphore_up(t, i)
    \/ \E t \in Tasks, i \in 0..(MaxSem - 1) : sys_semaphore_down(t, i)
    \/ \E t \in Tasks : semaphore_down_wake(t)
    \/ \E t \in Tasks, c \in 0..(MaxCondvar - 1) : sys_condvar_signal(t, c)
    \/ \E t \in Tasks, c \in 0..(MaxCondvar - 1), m \in 0..(MaxMutex - 1) :
          sys_condvar_wait(t, c, m)
    \/ \E t \in Tasks : condvar_wait_wake(t)

SpecWait == Init /\ [][NextWait]_vars

\* the life of tasks: dispatch, yield, sleep and timer, exit, and blocking on a
\* mutex
NextLife ==
    \/ run_tasks
    \/ \E t \in Tasks :
          \/ sys_yield(t)
          \/ sys_sleep(t)
          \/ check_timer(t)
          \/ sys_sleep_wake(t)
          \/ sys_exit(t)
          \/ sys_mutex_create(t, TRUE)
          \/ mutex_lock_wake(t)
          \/ \E m \in 0..(MaxMutex - 1) : sys_mutex_lock(t, m) \/ sys_mutex_unlock(t, m)

SpecLife == Init /\ [][NextLife]_vars

\* the handoff between a task and the idle control flow, one step for the
\* handler up to schedule and one for schedule
NextHandoff ==
    \/ idle_run_tasks
    \/ \E t \in Tasks :
          \/ suspend_current(t)
          \/ block_current(t)
          \/ exit_current(t)
          \/ schedule(t)
          \/ timer_interrupt(t)
          \/ sys_sleep_wake(t)

SpecHandoff == Init /\ [][NextHandoff]_vars

\* most mutexes created when the calls are taken one critical section at a
\* time
SnapshotMutexes == 1

\* the calls of mutexes and semaphores with sys_mutex_lock and
\* sys_semaphore_down taken one critical section at a time
NextSnapshot ==
    \/ run_tasks
    \/ \E t \in Tasks :
          \/ AtUser(t) /\ sys_yield(t)
          \/ AtUser(t) /\ Len(mutex_list) < SnapshotMutexes /\ sys_mutex_create(t, TRUE)
          \/ \E n \in 0..MaxCount : AtUser(t) /\ sys_semaphore_create(t, n)
          \/ AtUser(t) /\ sys_enable_deadlock_detect(t, 1)
          \/ \E m \in 0..(MaxMutex - 1) : acquire_check(t, FALSE, m)
          \/ \E i \in 0..(MaxSem - 1) : acquire_check(t, TRUE, i)
          \/ acquire_decide(t)
          \/ acquire_request(t)
          \/ preempt(t)
          \/ mutex_lock_wake(t)
          \/ semaphore_down_wake(t)
          \/ \E m \in 0..(MaxMutex - 1) : AtUser(t) /\ sys_mutex_unlock(t, m)
          \/ \E i \in 0..(MaxSem - 1) : AtUser(t) /\ sys_semaphore_up(t, i)

SpecSnapshot == Init /\ [][NextSnapshot]_vars

\* the mutex is in task t's allocation
MutexHeldBy(t, m) == \E i \in 1..Len(allocation[t]) : allocation[t][i] = <<FALSE, m>>

\* tasks that enable detection and then use only mutex_lock and mutex_unlock
\* on blocking mutexes, each unlocking only a mutex it holds, with
\* sys_mutex_lock taken one critical section at a time
NextGuarded ==
    \/ run_tasks
    \/ \E t \in Tasks :
          \/ AtUser(t) /\ sys_yield(t)
          \/ AtUser(t) /\ sys_mutex_create(t, TRUE)
          \/ AtUser(t) /\ sys_enable_deadlock_detect(t, 1)
          \/ \E m \in 0..(MaxMutex - 1) : dead_lock_detect /\ acquire_check(t, FALSE, m)
          \/ acquire_decide(t)
          \/ acquire_request(t)
          \/ preempt(t)
          \/ mutex_lock_wake(t)
          \/ \E m \in 0..(MaxMutex - 1) :
                AtUser(t) /\ MutexHeldBy(t, m) /\ sys_mutex_unlock(t, m)

SpecGuarded == InitSched /\ [][NextGuarded]_vars

\* most entries of a task's allocation given to the deadlock check
MaxHeld == 2

\* the ledger entries over the slots of the two lists
LedgerEntries ==
    {<<FALSE, m>> : m \in 0..(MaxMutex - 1)} \cup {<<TRUE, i>> : i \in 0..(MaxSem - 1)}

\* the allocations of at most n entries
RECURSIVE Allocations(_)
Allocations(n) ==
    IF n = 0 THEN {<<>>}
    ELSE Allocations(n - 1)
         \cup {Append(al, e) : al \in {a \in Allocations(n - 1) : Len(a) = n - 1},
                                e \in LedgerEntries}

\* deadlock_detect applied to ledgers and primitives drawn from bounded sets:
\* every slot is None, a held or a free mutex, or a semaphore with a count
InitDetect ==
    /\ areas = InitAreas
    /\ page_table = insert_page_table([v \in Vpns |-> "NoEntry"], 0, PAGE_SIZE)
    /\ mem_last = [MemCall("none", 0, 0, 0) EXCEPT !.aligned = TRUE, !.overlap = FALSE,
                                                   !.hole = FALSE]
    /\ dead_lock_detect = TRUE
    /\ mutex_list \in [1..MaxMutex ->
                          {None} \cup {Some([NewMutex(TRUE) EXCEPT !.locked = b]) :
                                          b \in BOOLEAN}]
    /\ semaphore_list \in [1..MaxSem ->
                              {None} \cup {Some(NewSemaphore(n)) : n \in 0..MaxCount}]
    /\ condvar_list = <<>>
    /\ timers = {}
    /\ process_inner = None
    /\ snapshot = [t \in Tasks |-> None]
    /\ task_status = [t \in Tasks |-> "Ready"]
    /\ allocation \in [Tasks -> Allocations(MaxHeld)]
    /\ need \in [Tasks -> {None} \cup {Some(e) : e \in LedgerEntries}]
    /\ priority = [t \in Tasks |-> DefaultPriority]
    /\ stride = [t \in Tasks |-> 0]
    /\ pc = [t \in Tasks |-> "user"]
    /\ current = None
    /\ ready_queue = [i \in 1..NTasks |-> i - 1]
    /\ last = Call("none", 0, 0, "returned", 0)
    /\ sem_hist = <<>>

NextDetect ==
    \E t \in Tasks, flag \in BOOLEAN, id \in 0..(MaxMutex + MaxSem - 1) : detect(t, flag, id)

SpecDetect == InitDetect /\ [][NextDetect]_vars

NextMem ==
    \/ \E start \in Starts, len \in Lens, port \in Ports : task_mmap(start, len, port)
    \/ \E start \in Starts, len \in Lens : task_munmap(start, len)

SpecMem == Init /\ [][NextMem]_vars

(***************************************************************************)
(* Properties of mmap and munmap (SpecMem)                                 *)
(***************************************************************************)

\* C3: munmap of a page-aligned range holding a page that is not mapped
\* (no entry, or an entry that is not valid) returns a failure and leaves the
\* mapped pages as they were.
C3_MunmapOfUnmappedFails ==
    [][(/\ mem_last'.op = "munmap"
        /\ mem_last'.aligned
        /\ mem_last'.hole)
       => (/\ mem_last'.ret < 0
           /\ Mapped(page_table') = Mapped(page_table))]_memvars

\* C4: mmap with an aligned start and an accepted permission value over a
\* range holding a mapped page returns a failure and leaves the regions and
\* the page table as they were.
C4_MmapOverlapFails ==
    [][(/\ mem_last'.op = "mmap"
        /\ mem_last'.aligned
        /\ ~PortRejected(mem_last'.port)
        /\ mem_last'.overlap)
       => (/\ mem_last'.ret < 0
           /\ areas' = areas
           /\ page_table' = page_table)]_memvars

\* an mmap over a range that overlapped a mapped page has failed
C4_Witness ==
    /\ mem_last.op = "mmap"
    /\ mem_last.aligned
    /\ PortValid(mem_last.port)
    /\ mem_last.overlap
    /\ mem_last.ret = -1

\* C5: the munmap(start, len) that follows a successful mmap(start, len, port)
\* succeeds and leaves the mapped pages as they were before the mmap.
C5_MmapMunmapRoundTrip ==
    [][(/\ mem_last.op = "mmap"
        /\ mem_last.ret = 0
        /\ task_munmap(mem_last.start, mem_last.len))
       => (/\ mem_last'.ret = 0
           /\ Mapped(page_table') = mem_last.pre_mapped)]_memvars

\* a region grants at least one of read, write, execute
HasRWX(perm) == Bit(perm, 1) = 1 \/ Bit(perm, 2) = 1 \/ Bit(perm, 3) = 1

\* C6: mmap fails when start is not aligned or when the permission value does
\* not encode at least one of R, W, X or has a bit set outside those three,
\* and every region of the address space grants at least one of R, W, X.
C6_MmapRejectsBadArguments ==
    /\ (mem_last.op = "mmap" /\ (~mem_last.aligned \/ ~PortValid(mem_last.port)))
          => mem_last.ret < 0
    /\ \A i \in 1..Len(areas) : HasRWX(areas[i].perm)

(***************************************************************************)
(* Properties of the mutex calls and the deadlock check                    *)
(***************************************************************************)

Mutexes == 0..(MaxMutex - 1)

MutexEntry(m) == <<FALSE, m>>

\* task t has an allocation entry for the resource
Holds(t, flag, id) == \E i \in 1..Len(allocation[t]) : allocation[t][i] = <<flag, id>>

\* mutex m is held, and the ledger names t and nobody else as its holder
HeldOnlyBy(t, m) ==
    /\ Present(mutex_list, m)
    /\ Get(mutex_list, m).locked
    /\ Holds(t, FALSE, m)
    /\ \A u \in Tasks \ {t} : ~Holds(u, FALSE, m)

\* a holds m1 and b holds m2
CrossHeld(a, b, m1, m2) ==
    /\ a # b
    /\ m1 # m2
    /\ HeldOnlyBy(a, m1)
    /\ HeldOnlyBy(b, m2)

\* C1 as stated: with detection enabled, a holding m1 and b holding m2, a call
\* mutex_lock(m2) by a (and, by symmetry, mutex_lock(m1) by b) returns the
\* deadlock sentinel and leaves both tasks not Blocked, whichever of the two
\* calls comes first.
C1_BothCrossRequestsRefused ==
    [][\A a, b \in Tasks, m1, m2 \in Mutexes :
          (/\ dead_lock_detect
           /\ CrossHeld(a, b, m1, m2)
           /\ sys_mutex_lock(a, m2))
          => (/\ last'.ret = DEAD
              /\ task_status'[a] # "Blocked"
              /\ task_status'[b] # "Blocked")]_vars

\* C1 amended: with detection enabled, a holding m1 and b holding m2, the
\* call mutex_lock(m2) by a made while b's request for m1 is pending returns
\* the deadlock sentinel and a stays Running; the call made while no other
\* task has a pending request does not return the sentinel: a waits for m2,
\* Blocked on a blocking mutex, Ready and retrying on a spin mutex.
C1_SecondCrossRequestRefused ==
    [][\A a, b \in Tasks, m1, m2 \in Mutexes :
          (/\ dead_lock_detect
           /\ CrossHeld(a, b, m1, m2)
           /\ sys_mutex_lock(a, m2))
          => IF need[b] = Some(MutexEntry(m1))
             THEN /\ last'.ret = DEAD
                  /\ last'.out = "returned"
                  /\ task_status'[a] = "Running"
                  /\ task_status'[b] = task_status[b]
             ELSE (\A u \in Tasks \ {a} : need[u] = None)
                  => (/\ last'.ret # DEAD
                      /\ need'[a] = Some(MutexEntry(m2))
                      /\ IF Get(mutex_list, m2).blocking
                         THEN last'.out = "blocked" /\ task_status'[a] = "Blocked"
                         ELSE last'.out = "spinning" /\ task_status'[a] = "Ready")]_vars

\* a's request for m2 was refused while b waits for m1, which a holds
C1_Witness ==
    /\ dead_lock_detect
    /\ last.op = "mutex_lock"
    /\ last.ret = DEAD
    /\ \E b \in Tasks, m1 \in Mutexes :
          /\ CrossHeld(last.tid, b, m1, last.id)
          /\ need[b] = Some(MutexEntry(m1))
          /\ task_status[last.tid] = "Running"

\* the call recorded in last is a lock or a down
IsAcquire(c) == c.op = "mutex_lock" \/ c.op = "semaphore_down"

\* C2 as stated: while the flag is false no mutex_lock or semaphore_down
\* returns the deadlock sentinel, and in the scenario where a holds m1 and b
\* holds m2, once b's request for m1 is pending and a has called
\* mutex_lock(m2), both tasks are Blocked.
C2_DisabledDetectionBlocksBoth ==
    [][/\ (~dead_lock_detect /\ IsAcquire(last')) => last'.ret # DEAD
       /\ \A a, b \in Tasks, m1, m2 \in Mutexes :
             (/\ ~dead_lock_detect
              /\ CrossHeld(a, b, m1, m2)
              /\ need[b] = Some(MutexEntry(m1))
              /\ sys_mutex_lock(a, m2))
             => (/\ task_status'[a] = "Blocked"
                 /\ task_status'[b] = "Blocked")]_vars

\* C2 amended: while the flag is false no mutex_lock or semaphore_down
\* returns the deadlock sentinel; in the scenario, a call mutex_lock(m2) by
\* a on a blocking mutex leaves a Blocked on m2's wait queue and leaves b
\* Blocked if it was, and on a spin mutex leaves a Ready and retrying.
C2_DisabledDetectionNeverRefuses ==
    [][/\ (~dead_lock_detect /\ IsAcquire(last')) => last'.ret # DEAD
       /\ \A a, b \in Tasks, m1, m2 \in Mutexes :
             (/\ ~dead_lock_detect
              /\ CrossHeld(a, b, m1, m2)
              /\ sys_mutex_lock(a, m2))
             => IF Get(mutex_list, m2).blocking
                THEN /\ task_status'[a] = "Blocked"
                     /\ InQueue(Get(mutex_list', m2).wait_queue, a)
                     /\ task_status[b] = "Blocked" => task_status'[b] = "Blocked"
                ELSE /\ task_status'[a] = "Ready"
                     /\ pc'[a] = "mutex_spin"]_vars

\* with the flag false, both tasks of the scenario are Blocked, each on the
\* mutex the other holds
C2_Witness ==
    /\ ~dead_lock_detect
    /\ last.op = "mutex_lock"
    /\ last.out = "blocked"
    /\ \E b \in Tasks, m1 \in Mutexes :
          /\ CrossHeld(last.tid, b, m1, last.id)
          /\ need[b] = Some(MutexEntry(m1))
          /\ need[last.tid] = Some(MutexEntry(last.id))
          /\ task_status[last.tid] = "Blocked"
          /\ task_status[b] = "Blocked"

\* task t is on no wait queue
OnNoWaitQueue(t) ==
    /\ \A m \in 1..Len(mutex_list) :
          mutex_list[m] # None => ~InQueue(mutex_list[m][1].wait_queue, t)
    /\ \A s \in 1..Len(semaphore_list) :
          semaphore_list[s] # None => ~InQueue(semaphore_list[s][1].wait_queue, t)

\* C7: a mutex_lock or semaphore_down that returns the deadlock sentinel
\* leaves the caller Running and on no wait queue, and leaves every task's
\* allocation and need, every primitive, every other task's status and the
\* ready queue as they were.
C7_SentinelChangesNothing ==
    [][\A t \in Tasks :
          (/\ InUser(t)
           /\ IsAcquire(last')
           /\ last'.tid = t
           /\ last'.ret = DEAD)
          => (/\ task_status'[t] = "Running"
              /\ current' = Some(t)
              /\ OnNoWaitQueue(t)'
              /\ allocation' = allocation
              /\ need' = need
              /\ mutex_list' = mutex_list
              /\ semaphore_list' = semaphore_list
              /\ task_status' = task_status
              /\ ready_queue' = ready_queue
              /\ pc' = pc
              /\ dead_lock_detect' = dead_lock_detect)]_vars

\* a lock was refused to a task that holds a resource
C7_Witness ==
    /\ last.op = "mutex_lock"
    /\ last.ret = DEAD
    /\ allocation[last.tid] # <<>>
    /\ task_status[last.tid] = "Running"

\* a task that unlock has woken and that has not run since
WokenFor(w, m) ==
    /\ task_status[w] = "Ready"
    /\ pc[w] = "mutex_lock"
    /\ need[w] = Some(MutexEntry(m))

Semaphores == 0..(MaxSem - 1)

\* the semaphore has seen no up() since it was created
NoUpYet(s) == s < Len(sem_hist) /\ sem_hist[s + 1] # None

\* C9 as stated: on a semaphore created with count N that has seen no up(),
\* each of the first N semaphore_down calls returns at once and the next one
\* blocks its caller on the wait queue.
C9_FirstNDownsThenBlock ==
    [][\A t \in Tasks, s \in Semaphores :
          (/\ NoUpYet(s)
           /\ sys_semaphore_down(t, s))
          => LET h == sem_hist[s + 1][1]
             IN  /\ h.downs < h.init
                    => (/\ last'.out = "returned"
                        /\ last'.ret = 0
                        /\ task_status'[t] = "Running")
                 /\ h.downs = h.init
                    => (/\ last'.out = "blocked"
                        /\ task_status'[t] = "Blocked"
                        /\ InQueue(Get(semaphore_list', s).wait_queue, t))]_vars

\* C9 amended: on a semaphore created with count N that has seen no up(), of
\* the semaphore_down calls that the deadlock check does not refuse, each of
\* the first N returns 0 at once and the next one blocks its caller on the
\* wait queue; no call is refused while detection is disabled.
C9_AdmittedDownsThenBlock ==
    [][\A t \in Tasks, s \in Semaphores :
          (/\ NoUpYet(s)
           /\ sys_semaphore_down(t, s))
          => LET h == sem_hist[s + 1][1]
             IN  /\ ~dead_lock_detect => last'.ret # DEAD
                 /\ (last'.ret # DEAD /\ h.downs < h.init)
                    => (/\ last'.out = "returned"
                        /\ last'.ret = 0
                        /\ task_status'[t] = "Running"
                        /\ Get(semaphore_list', s).count = h.init - h.downs - 1)
                 /\ (last'.ret # DEAD /\ h.downs = h.init)
                    => (/\ last'.out = "blocked"
                        /\ task_status'[t] = "Blocked"
                        /\ InQueue(Get(semaphore_list', s).wait_queue, t))]_vars

\* the down that follows the N admitted downs of a semaphore created with a
\* positive count N has blocked its caller
C9_Witness ==
    /\ last.op = "semaphore_down"
    /\ last.out = "blocked"
    /\ NoUpYet(last.id)
    /\ sem_hist[last.id + 1][1].init > 0
    /\ sem_hist[last.id + 1][1].downs = sem_hist[last.id + 1][1].init + 1
    /\ task_status[last.tid] = "Blocked"

(***************************************************************************)
(* Properties of the scheduling loop (SpecSched)                           *)
(***************************************************************************)

\* C10: a dispatch takes a task that is Ready and that no other Ready task
\* precedes by (stride, task id), marks it Running and current, and adds
\* BIG_STRIDE / priority to its stride, once; the other tasks keep their
\* status and stride.
C10_DispatchTakesMinimumStride ==
    [][(current = None /\ current' # None)
       => \E t \in Tasks :
             /\ current' = Some(t)
             /\ task_status[t] = "Ready"
             /\ \A u \in Tasks \ {t} :
                   task_status[u] = "Ready"
                   => (stride[t] < stride[u] \/ (stride[t] = stride[u] /\ t < u))
             /\ task_status'[t] = "Running"
             /\ (stride'[t] - stride[t]) * priority[t] = BIG_STRIDE
             /\ \A u \in Tasks \ {t} :
                   /\ task_status'[u] = task_status[u]
                   /\ stride'[u] = stride[u]
             /\ ~InQueue(ready_queue', t)]_vars

\* the task with the higher id runs, dispatched ahead of a Ready task with a
\* lower id and a larger stride
C10_Witness ==
    \E t, u \in Tasks :
        /\ u < t
        /\ current = Some(t)
        /\ task_status[t] = "Running"
        /\ task_status[u] = "Ready"
        /\ stride[t] - (BIG_STRIDE \div priority[t]) < stride[u]
        /\ stride[t] > BIG_STRIDE \div priority[t]
        /\ priority[t] # priority[u]

(***************************************************************************)
(* Properties of the creation calls and the detection switch (SpecSetup)   *)
(***************************************************************************)

\* the list after a creation that returned id: id is the lowest None slot of
\* the list before and the only slot that changed, or, when no slot was None,
\* the old length, with the list one longer and its old slots unchanged
CreatedAt(list, after, id) ==
    IF \E i \in 1..Len(list) : list[i] = None
    THEN /\ id \in 0..(Len(list) - 1)
         /\ list[id + 1] = None
         /\ \A j \in 1..id : list[j] # None
         /\ Len(after) = Len(list)
         /\ after[id + 1] # None
         /\ \A j \in 1..Len(list) : j # id + 1 => after[j] = list[j]
    ELSE /\ id = Len(list)
         /\ Len(after) = Len(list) + 1
         /\ after[id + 1] # None
         /\ \A j \in 1..Len(list) : after[j] = list[j]

\* C11: mutex_create, semaphore_create and condvar_create return the lowest
\* None slot of their list and fill it, leaving length and other slots alone,
\* and append, returning the old length, only when no slot is None; a create
\* that follows the retiring of the id just created returns that id again.
C11_CreateReusesLowestFreeSlot ==
    [][/\ (\E t \in Tasks, b \in BOOLEAN : sys_mutex_create(t, b))
          => (/\ CreatedAt(mutex_list, mutex_list', last'.ret)
              /\ (last.op = "mutex_retire" /\ last.ret = 1) => last'.ret = last.id)
       /\ (\E t \in Tasks, n \in 0..MaxCount : sys_semaphore_create(t, n))
          => (/\ CreatedAt(semaphore_list, semaphore_list', last'.ret)
              /\ (last.op = "semaphore_retire" /\ last.ret = 1) => last'.ret = last.id)
       /\ (\E t \in Tasks : sys_condvar_create(t))
          => (/\ CreatedAt(condvar_list, condvar_list', last'.ret)
              /\ (last.op = "condvar_retire" /\ last.ret = 1) => last'.ret = last.id)]_vars

\* a create has filled slot 0 again while slot 1 is in use
C11_Witness ==
    /\ last.op = "mutex_create"
    /\ last.ret = 0
    /\ Len(mutex_list) = 2
    /\ mutex_list[1] # None
    /\ mutex_list[2] # None

\* C12: enable_deadlock_detect(v) returns 0 and sets the flag to (v = 1)
\* when v is 0 or 1, and returns a failure and keeps the flag for other v.
C12_EnableAcceptsZeroAndOne ==
    [][\A t \in Tasks, v \in EnableArgs :
          sys_enable_deadlock_detect(t, v)
          => IF v \in {0, 1}
             THEN last'.ret = 0 /\ dead_lock_detect' = (v = 1)
             ELSE last'.ret < 0 /\ dead_lock_detect' = dead_lock_detect]_vars

\* a call with an argument other than 0 and 1 was refused while the flag was
\* on
C12_Witness ==
    /\ last.op = "enable_deadlock_detect"
    /\ last.id \notin {0, 1}
    /\ last.ret = -1
    /\ dead_lock_detect

(***************************************************************************)
(* Properties of the resource ledger (SpecWait)                            *)
(***************************************************************************)

\* the number of entries e of an allocation
Count(al, e) == Cardinality({i \in 1..Len(al) : al[i] = e})

Entries(al) == {al[i] : i \in 1..Len(al)}

\* after is al with one entry e taken out if al has one, and al's entries
\* otherwise
ReleasedFrom(al, after, e) ==
    \A x \in Entries(al) \cup Entries(after) \cup {e} :
        Count(after, x) = Count(al, x) - (IF x = e /\ Count(al, e) > 0 THEN 1 ELSE 0)

\* no task but t has a changed ledger
OthersLedgerKept(t) ==
    \A u \in Tasks \ {t} : allocation'[u] = allocation[u] /\ need'[u] = need[u]

C14_NeedClearedBeforeRequest ==
    \A t \in Tasks :
        /\ pc[t] # "panicked"
        /\ pc[t] = "user" => need[t] = None

(***************************************************************************)
(* Properties of the deadlock check                                        *)
(***************************************************************************)

\* C15: with detection enabled, a mutex_lock on an unlocked mutex and a
\* semaphore_down on a semaphore with a positive count do not return the
\* deadlock sentinel.
C15_AvailableResourceNeverRefused ==
    [][\A t \in Tasks :
          (InUser(t) /\ dead_lock_detect) =>
          /\ \A m \in Mutexes :
                (/\ Present(mutex_list, m)
                 /\ ~Get(mutex_list, m).locked
                 /\ sys_mutex_lock(t, m))
                => last'.ret # DEAD
          /\ \A i \in Semaphores :
                (/\ Present(semaphore_list, i)
                 /\ Get(semaphore_list, i).count > 0
                 /\ sys_semaphore_down(t, i))
                => last'.ret # DEAD]_vars

\* the reference safety check, over resources named by their ledger entry
RefResources ==
    {<<FALSE, m>> : m \in 0..(Len(mutex_list) - 1)}
        \cup {<<TRUE, i>> : i \in 0..(Len(semaphore_list) - 1)}

\* units of r held by the tasks of F
RefHeld(F, r) ==
    Cardinality({p \in F \X (1..MaxHeld) :
                    p[2] <= Len(allocation[p[1]]) /\ allocation[p[1]][p[2]] = r})

\* units of r that task t needs when caller requests req
RefNeed(t, r, caller, req) ==
    (IF need[t] = Some(r) THEN 1 ELSE 0) + (IF t = caller /\ r = req THEN 1 ELSE 0)

\* units of r available at the start
RefWork(r) ==
    IF r[1]
    THEN IF Present(semaphore_list, r[2]) /\ Get(semaphore_list, r[2]).count > 0
         THEN Get(semaphore_list, r[2]).count ELSE 0
    ELSE IF Present(mutex_list, r[2]) /\ ~Get(mutex_list, r[2]).locked THEN 1 ELSE 0

\* the tasks outside F that can finish once the tasks of F have
RefEligible(F, caller, req) ==
    {t \in Tasks \ F :
        \A r \in RefResources : RefNeed(t, r, caller, req) <= RefWork(r) + RefHeld(F, r)}

\* every eligible task is finished at once, until none is left
RECURSIVE RefFinished(_, _, _)
RefFinished(F, caller, req) ==
    IF RefEligible(F, caller, req) = {} THEN F
    ELSE RefFinished(F \cup RefEligible(F, caller, req), caller, req)

\* the eligible task with the highest id is finished, until none is left
RECURSIVE RefFinishedHighestFirst(_, _, _)
RefFinishedHighestFirst(F, caller, req) ==
    LET E == RefEligible(F, caller, req)
    IN  IF E = {} THEN F
        ELSE RefFinishedHighestFirst(
                 F \cup {CHOOSE t \in E : \A u \in E : u <= t}, caller, req)

\* C16: deadlock_detect returns "unsafe" exactly when the reference safety
\* check stops with a task unfinished, and the reference check stops with the
\* same tasks finished whichever eligible task it finishes first.
C16_DetectIsBankersCheck ==
    last.op = "deadlock_detect"
    => LET req == <<last.out = "semaphore", last.id>>
           F == RefFinished({}, last.tid, req)
       IN  /\ (last.ret = 1) <=> (F # Tasks)
           /\ RefFinishedHighestFirst({}, last.tid, req) = F

\* the check found a request unsafe although its caller could finish: another
\* task's need cannot be met
C16_Witness ==
    /\ last.op = "deadlock_detect"
    /\ last.ret = 1
    /\ last.out = "semaphore"
    /\ last.tid \in RefFinished({}, last.tid, <<TRUE, last.id>>)
    /\ \E t \in Tasks : Holds(t, TRUE, last.id)

\* the changes of status a task can make
StatusSteps ==
    {<<"Ready", "Running">>, <<"Running", "Ready">>, <<"Running", "Blocked">>,
     <<"Running", "Exited">>, <<"Blocked", "Ready">>}

\* the tasks that are Running
RunningTasks(st) == {t \in Tasks : st[t] = "Running"}

\* C17: a task's status changes only from Ready to Running (by the scheduling
\* loop, with no task current), from Running to Ready, Blocked or Exited (by
\* the current task itself) and from Blocked to Ready; an Exited task changes
\* no more, and at most one task is Running.
C17_StatusStateMachine ==
    [][/\ \A t \in Tasks :
             task_status'[t] # task_status[t] =>
             /\ <<task_status[t], task_status'[t]>> \in StatusSteps
             /\ task_status'[t] = "Running" => (current = None /\ current' = Some(t))
             /\ task_status[t] = "Running" => (current = Some(t) /\ current' = None)
        /\ Cardinality(RunningTasks(task_status)) <= 1
        /\ Cardinality(RunningTasks(task_status')) <= 1]_vars

\* a timer has made a sleeping task Ready after another task has exited: the
\* sleeper was Ready, Running, Blocked, and is Ready again
C17_Witness ==
    /\ last.op = "check_timer"
    /\ task_status[last.tid] = "Ready"
    /\ pc[last.tid] = "sleep"
    /\ \E u \in Tasks : task_status[u] = "Exited"

\* the control flow of task t executes: from the switch into it in run_tasks
\* until schedule switches back to idle
TaskRuns(t) == task_status[t] = "Running" \/ InHandoff(t)

\* C18 as stated: current is Some of the task whose control flow executes,
\* also between take_current and schedule, and None only while idle runs.
C18_CurrentIsTheExecutingTask ==
    /\ current \in {None} \cup {Some(t) : t \in Tasks}
    /\ \A t \in Tasks : TaskRuns(t) => current = Some(t)
    /\ current = None => \A t \in Tasks : ~TaskRuns(t)

\* C18: current holds at most one task; it is Some of a task exactly while
\* that task is Running, and it is None while idle runs the scheduling loop
\* and while a task is between its take_current and its call of schedule; at
\* most one task is there at a time.
C18_CurrentIsTheRunningTask ==
    /\ current \in {None} \cup {Some(t) : t \in Tasks}
    /\ \A t \in Tasks : current = Some(t) <=> task_status[t] = "Running"
    /\ \A t \in Tasks : InHandoff(t) => (current = None /\ task_status[t] # "Running")
    /\ Cardinality({t \in Tasks : TaskRuns(t)}) <= 1

\* a task has yielded and taken itself out of the Processor, and has not yet
\* switched to idle
C18_Witness ==
    /\ last.op = "yield"
    /\ last.out = "taken"
    /\ InHandoff(last.tid)
    /\ current = None

\* the places of task t on the wait queues of a list of primitives
PlacesIn(kind, list, t) ==
    UNION {{<<kind, i, j>> : j \in {k \in DOMAIN list[i][1].wait_queue :
                                        list[i][1].wait_queue[k] = t}} :
           i \in {k \in DOMAIN list : list[k] # None}}

\* the places of task t on all wait queues
Places(t) ==
    PlacesIn("mutex", mutex_list, t) \cup PlacesIn("semaphore", semaphore_list, t)
        \cup PlacesIn("condvar", condvar_list, t)

\* C19: a task on the wait queue of a mutex, semaphore or condvar is Blocked,
\* and a task is on at most one wait queue, at one place.
C19_WaitersAreBlocked ==
    \A t \in Tasks :
        /\ Places(t) # {} => task_status[t] = "Blocked"
        /\ Cardinality(Places(t)) <= 1

\* one task waits on a condvar and another waits on a mutex
C19_Witness ==
    \E t, u \in Tasks :
        /\ t # u
        /\ PlacesIn("condvar", condvar_list, t) # {}
        /\ PlacesIn("mutex", mutex_list, u) # {}
        /\ task_status[t] = "Blocked"
        /\ task_status[u] = "Blocked"

\* a task that up has woken from the queue of semaphore i and that has not
\* run since
WokenForSem(w, i) ==
    /\ task_status[w] = "Ready"
    /\ pc[w] = "semaphore_down"
    /\ need[w] = Some(<<TRUE, i>>)

\* the units of semaphore i that the deadlock check counts as available
WorkOf(ml, sl, i) == WorkInit(ml, sl)[fetch_id(ml, TRUE, i)]

Availability(ml, sl) ==
    <<[m \in DOMAIN ml |-> IF ml[m] = None THEN None ELSE Some(ml[m][1].locked)],
      [i \in DOMAIN sl |-> IF sl[i] = None THEN None ELSE Some(sl[i][1].count)]>>

\* task t is between the start of its deadlock check and its decision
Deciding(t) == snapshot[t] # None /\ snapshot[t][1].stage = "decide"

\* C21: from the start of the deadlock check of sys_mutex_lock or
\* sys_semaphore_down to its decision the caller holds the exclusive access of
\* the process, stays the running task, and no allocation, need, held flag or
\* count changes, so the decision is the one the check gives on the state at
\* the decision; a task that holds the exclusive access is never switched out.
C21_DecisionOnConsistentSnapshot ==
    [][\A t \in Tasks :
          /\ Deciding(t) => process_inner = Some(t)
          /\ Deciding(t)' => process_inner' = Some(t)
          /\ process_inner' = Some(t) => (current' = Some(t) /\ task_status'[t] = "Running")
          /\ process_inner = Some(t)
             => /\ current = Some(t)
                /\ task_status[t] = "Running"
                /\ task_status'[t] = "Running"
                /\ allocation' = allocation
                /\ need' = need
                /\ Availability(mutex_list', semaphore_list')
                      = Availability(mutex_list, semaphore_list)
                /\ acquire_decide(t)
                /\ snapshot[t][1].unsafe
                      = (dead_lock_detect
                         /\ deadlock_detect(allocation, need, mutex_list, semaphore_list,
                                            snapshot[t][1].flag, snapshot[t][1].id, t))]_vars

\* with detection enabled a task has passed the check while the other task is
\* Blocked with a pending need, and has dropped the exclusive access
C21_Witness ==
    /\ dead_lock_detect
    /\ last.out = "proceed"
    /\ process_inner = None
    /\ snapshot[last.tid] # None
    /\ \E u \in Tasks \ {last.tid} : need[u] # None /\ task_status[u] = "Blocked"

\* task t is Blocked on a mutex that a task of S holds
WaitsOn(t, S) ==
    /\ task_status[t] = "Blocked"
    /\ \E m \in Mutexes :
          /\ need[t] = Some(MutexEntry(m))
          /\ \E u \in S : Holds(u, FALSE, m)

\* C22: with detection enabled before any lock is taken and only mutex_lock
\* and mutex_unlock in use, there is no set of tasks that are all Blocked on
\* mutexes held by one another.
C22_NoCircularWait ==
    ~ \E S \in SUBSET Tasks : S # {} /\ \A t \in S : WaitsOn(t, S)

\* C23: a munmap(start, len) that returns 0 unmaps the pages of
\* [start, ceil(start + len)) and no other page: afterwards no page of the
\* range is mapped and every page outside it is mapped as before.
C23_MunmapUnmapsExactlyItsRange ==
    [][\A start \in Starts, len \in Lens :
          (task_munmap(start, len) /\ mem_last'.ret = 0)
          => Mapped(page_table')
                = Mapped(page_table) \ VPNRange(floor(start), ceil(start + len))]_memvars

====
